---- MODULE Spec2Model ----
(***************************************************************************)
(* The interval timer of exercise-timer (src/main.rs): the AppModel        *)
(* component, its input queue, and the tick worker that feeds it.          *)
(*                                                                         *)
(* usize is 64 bits wide and 2^64 is beyond TLC's integers, so a usize     *)
(* value is held as its two's-complement reading: 0 .. 2^63-1 as itself    *)
(* and 2^64 - k as -k.  A wrapping subtraction is then plain subtraction,  *)
(* and a value is 0 only when the usize is 0.  A negative remaining_s in   *)
(* the model is a usize that has wrapped around.                           *)
(***************************************************************************)
EXTENDS Integers, Sequences, FiniteSets, TLC

\* ------------------------------------------------------------------ bounds
MaxSecs == 2
MaxSets == 2
MaxCmds == 2
MaxQueue == 3
ExtraTicks == 1

\* ------------------------------------------------------------------- state
VARIABLES
    exercise,        \* AppModel.exercise: the Exercise definition
    state,           \* AppModel.state: ExerciseState
    remaining_sets,  \* AppModel.remaining_sets
    remaining_s,     \* AppModel.remaining_s
    running,         \* AppModel.running
    timer,           \* AppModel.timer: None, or the handle of the worker held
    queue,           \* the component's input channel, oldest message first
    workers,         \* number of tick workers built so far
    overflow_checks, \* the build: TRUE panics on usize overflow, FALSE wraps
    panic,           \* "none", or the panic that ended the component
    nticks,          \* history: Ticks handled since construction or Reset
    emitted,         \* history: Ticks the workers have sent
    cmds,            \* history: button clicks so far
    last             \* history: the last two messages handled and the state before each

vars == <<exercise, state, remaining_sets, remaining_s, running, timer, queue,
          workers, overflow_checks, panic, nticks, emitted, cmds, last>>

None == 0

ExerciseState == {"Warmup", "Exercise", "Rest"}

\* struct Exercise, with every field a usize
Exercise(w, e, r, n) == [warmup_s |-> w, exercise_s |-> e, rest_s |-> r, sets |-> n]

\* impl Default for Exercise
DefaultExercise == Exercise(2, 2, 2, 2)

\* the definitions the data model allows: exercise >= 1, sets >= 1
Definitions ==
    { Exercise(w, e, r, n) : w \in 0..MaxSecs, e \in 1..MaxSecs,
                             r \in 0..MaxSecs, n \in 1..MaxSets }

\* AppModel::new takes any Exercise: these have exercise_s = 0 or sets = 0
InvalidDefinitions ==
    { Exercise(w, e, r, n) : w \in 0..MaxSecs, e \in 0..MaxSecs,
                             r \in 0..MaxSecs, n \in 0..MaxSets } \ Definitions

\* the fields of AppModel as one record
Self == [exercise |-> exercise, state |-> state, remaining_sets |-> remaining_sets,
         remaining_s |-> remaining_s, running |-> running, timer |-> timer]

\* what the view shows of the model
Snapshot(m) == [state |-> m.state, remaining_s |-> m.remaining_s,
                remaining_sets |-> m.remaining_sets, running |-> m.running]

\* build_timer: a new worker, forwarding its Ticks to the input channel
build_timer(built) == built + 1

\* AppModel::new
new(ex, built) ==
    [exercise |-> ex, state |-> "Warmup", remaining_sets |-> ex.sets,
     remaining_s |-> ex.warmup_s, running |-> TRUE, timer |-> build_timer(built)]

\* reset that forgets to restore the set count
reset_KeepSets(m, built) ==
    [m EXCEPT !.state = "Warmup", !.remaining_s = m.exercise.warmup_s,
              !.running = TRUE, !.timer = build_timer(built)]

\* AppModel::reset
reset(m, built) ==
    [m EXCEPT !.state = "Warmup", !.remaining_sets = m.exercise.sets,
              !.remaining_s = m.exercise.warmup_s, !.running = TRUE,
              !.timer = build_timer(built)]

\* the messages of the input channel
TickMsg(h) == [kind |-> "Tick", from |-> h]
StartStopMsg(who) == [kind |-> "StartStop", from |-> who]
ResetMsg == [kind |-> "Reset", from |-> "user"]

\* the result of one call of update
Done(m) == [m |-> m, panic |-> "none", send |-> <<>>]
Panicked(m, why) == [m |-> m, panic |-> why, send |-> <<>>]

\* StartStop that keeps the worker when it pauses
UpdateStartStop_KeepTimer(m, built) ==
    IF m.running
    THEN Done([m EXCEPT !.running = ~m.running])
    ELSE Done([m EXCEPT !.timer = build_timer(built), !.running = ~m.running])

\* StartStop that restarts the protocol when it resumes
UpdateStartStop_Restart(m, built) ==
    IF m.running
    THEN Done([m EXCEPT !.timer = None, !.running = ~m.running])
    ELSE Done([m EXCEPT !.timer = build_timer(built), !.running = ~m.running,
                        !.state = "Warmup", !.remaining_s = m.exercise.warmup_s])

\* StartStop that reloads the current phase's duration when it resumes
UpdateStartStop_Reload(m, built) ==
    IF m.running
    THEN Done([m EXCEPT !.timer = None, !.running = ~m.running])
    ELSE Done([m EXCEPT !.timer = build_timer(built), !.running = ~m.running,
                        !.remaining_s = CASE m.state = "Warmup" -> m.exercise.warmup_s
                                          [] m.state = "Exercise" -> m.exercise.exercise_s
                                          [] m.state = "Rest" -> m.exercise.rest_s])

\* StartStop that does nothing on a timer that is already paused
UpdateStartStop_StopOnly(m, built) ==
    IF m.running
    THEN Done([m EXCEPT !.timer = None, !.running = ~m.running])
    ELSE Done(m)

\* StartStop that resumes without building a worker
UpdateStartStop_NoWorker(m, built) ==
    IF m.running
    THEN Done([m EXCEPT !.timer = None, !.running = ~m.running])
    ELSE Done([m EXCEPT !.running = ~m.running])

\* update, AppInput::StartStop
UpdateStartStop(m, built) ==
    IF m.running
    THEN Done([m EXCEPT !.timer = None, !.running = ~m.running])
    ELSE Done([m EXCEPT !.timer = build_timer(built), !.running = ~m.running])

\* update, AppInput::Tick, ExerciseState::Warmup
TickWarmup(m) ==
    Done([m EXCEPT !.state = "Exercise", !.remaining_s = m.exercise.exercise_s])

\* Exercise arm that enters Rest after the last set too
TickExercise_AlwaysRest(m, oc) ==
    IF m.remaining_sets = 0 /\ oc
    THEN Panicked(m, "overflow")
    ELSE LET m1 == [m EXCEPT !.remaining_sets = @ - 1, !.state = "Rest",
                             !.remaining_s = m.exercise.rest_s] IN
         IF m1.remaining_sets = 0
         THEN [m |-> m1, panic |-> "none", send |-> <<StartStopMsg("self")>>]
         ELSE Done(m1)

\* Exercise arm that skips a rest of 0 seconds
TickExercise_SkipZeroRest(m, oc) ==
    IF m.remaining_sets = 0 /\ oc
    THEN Panicked(m, "overflow")
    ELSE LET m1 == [m EXCEPT !.remaining_sets = @ - 1] IN
         IF m1.remaining_sets = 0
         THEN [m |-> m1, panic |-> "none", send |-> <<StartStopMsg("self")>>]
         ELSE IF m.exercise.rest_s = 0
              THEN Done([m1 EXCEPT !.remaining_s = m.exercise.exercise_s])
              ELSE Done([m1 EXCEPT !.state = "Rest", !.remaining_s = m.exercise.rest_s])

\* update, AppInput::Tick, ExerciseState::Exercise
TickExercise(m, oc) ==
    IF m.remaining_sets = 0 /\ oc
    THEN Panicked(m, "overflow")
    ELSE LET m1 == [m EXCEPT !.remaining_sets = @ - 1] IN
         IF m1.remaining_sets = 0
         THEN [m |-> m1, panic |-> "none", send |-> <<StartStopMsg("self")>>]
         ELSE Done([m1 EXCEPT !.state = "Rest", !.remaining_s = m.exercise.rest_s])

\* Rest arm that starts another rest
TickRest_Again(m) ==
    Done([m EXCEPT !.state = "Rest", !.remaining_s = m.exercise.rest_s])

\* Rest arm that counts the set when the rest ends
TickRest_CountsSet(m) ==
    Done([m EXCEPT !.state = "Exercise", !.remaining_s = m.exercise.exercise_s,
                   !.remaining_sets = @ - 1])

\* update, AppInput::Tick, ExerciseState::Rest
TickRest(m) ==
    Done([m EXCEPT !.state = "Exercise", !.remaining_s = m.exercise.exercise_s])

\* Tick that tests for 0 before it decrements
UpdateTick_TestFirst(m, oc) ==
    IF ~m.running THEN Panicked(m, "assert")
    ELSE IF m.remaining_s = 0
         THEN CASE m.state = "Warmup" -> TickWarmup(m)
                [] m.state = "Exercise" -> TickExercise(m, oc)
                [] m.state = "Rest" -> TickRest(m)
         ELSE Done([m EXCEPT !.remaining_s = @ - 1])

\* update, AppInput::Tick
UpdateTick(m, oc) ==
    IF ~m.running THEN Panicked(m, "assert")
    ELSE IF m.remaining_s = 0 /\ oc THEN Panicked(m, "overflow")
    ELSE LET m1 == [m EXCEPT !.remaining_s = @ - 1] IN
         IF m1.remaining_s = 0
         THEN CASE m1.state = "Warmup" -> TickWarmup(m1)
                [] m1.state = "Exercise" -> TickExercise(m1, oc)
                [] m1.state = "Rest" -> TickRest(m1)
         ELSE Done(m1)

\* update, AppInput::Reset
UpdateReset(m, built) == Done(reset(m, built))

\* Ticks from construction to the end of the last set
TotalTicks(ex) == ex.warmup_s + ex.sets * ex.exercise_s + (ex.sets - 1) * ex.rest_s

Max2(a, b) == IF a >= b THEN a ELSE b
MaxDuration(ex) == Max2(ex.warmup_s, Max2(ex.exercise_s, ex.rest_s))

\* the Ticks the workers may send: a whole run (of one set when sets = 0)
\* and ExtraTicks more
TickBudget(ex) ==
    TotalTicks([ex EXCEPT !.sets = Max2(ex.sets, 1)]) + ExtraTicks

\* ------------------------------------------------------------------ actions
InitFrom(defs) ==
    /\ exercise \in defs
    /\ overflow_checks \in BOOLEAN
    /\ workers = 1
    /\ LET m == new(exercise, 0) IN
         /\ state = m.state
         /\ remaining_sets = m.remaining_sets
         /\ remaining_s = m.remaining_s
         /\ running = m.running
         /\ timer = m.timer
    /\ queue = <<>>
    /\ panic = "none"
    /\ nticks = 0
    /\ emitted = 0
    /\ cmds = 0
    /\ last = [msg |-> "none", from |-> "none", pre |-> Snapshot(new(exercise, 0)),
               pre_timer |-> None, prev_msg |-> "none",
               prev_pre |-> Snapshot(new(exercise, 0))]

\* init: the model is built by new
Init == InitFrom(Definitions)

\* init with a definition that has exercise_s = 0 or sets = 0
InitInvalid == InitFrom(InvalidDefinitions)

\* the model after a call of update, with the messages it sent queued
Apply(res, msg) ==
    /\ state' = res.m.state
    /\ remaining_sets' = res.m.remaining_sets
    /\ remaining_s' = res.m.remaining_s
    /\ running' = res.m.running
    /\ timer' = res.m.timer
    /\ panic' = res.panic
    /\ queue' = Tail(queue) \o res.send
    /\ last' = [msg |-> msg.kind, from |-> msg.from, pre |-> Snapshot(Self),
                pre_timer |-> timer, prev_msg |-> last.msg, prev_pre |-> last.pre]
    /\ UNCHANGED <<exercise, overflow_checks>>

\* the worker held by the model sends a Tick
TimerEmit ==
    /\ panic = "none"
    /\ timer # None
    /\ Len(queue) < MaxQueue
    /\ emitted < TickBudget(exercise)
    /\ queue' = Append(queue, TickMsg(timer))
    /\ emitted' = emitted + 1
    /\ UNCHANGED <<exercise, state, remaining_sets, remaining_s, running, timer,
                   workers, overflow_checks, panic, nticks, cmds, last>>

\* the Pause/Resume button, sensitive while remaining_s != 0
ClickStartStop ==
    /\ panic = "none"
    /\ remaining_s # 0
    /\ cmds < MaxCmds
    /\ Len(queue) < MaxQueue
    /\ queue' = Append(queue, StartStopMsg("user"))
    /\ cmds' = cmds + 1
    /\ UNCHANGED <<exercise, state, remaining_sets, remaining_s, running, timer,
                   workers, overflow_checks, panic, nticks, emitted, last>>

\* the Restart button
ClickReset ==
    /\ panic = "none"
    /\ cmds < MaxCmds
    /\ Len(queue) < MaxQueue
    /\ queue' = Append(queue, ResetMsg)
    /\ cmds' = cmds + 1
    /\ UNCHANGED <<exercise, state, remaining_sets, remaining_s, running, timer,
                   workers, overflow_checks, panic, nticks, emitted, last>>

HandleStartStop ==
    /\ panic = "none"
    /\ queue # <<>>
    /\ Head(queue).kind = "StartStop"
    /\ Apply(UpdateStartStop(Self, workers), Head(queue))
    /\ workers' = IF running THEN workers ELSE workers + 1
    /\ UNCHANGED <<nticks, emitted, cmds>>

HandleTick ==
    /\ panic = "none"
    /\ queue # <<>>
    /\ Head(queue).kind = "Tick"
    /\ Apply(UpdateTick(Self, overflow_checks), Head(queue))
    /\ nticks' = IF UpdateTick(Self, overflow_checks).panic = "none"
                 THEN nticks + 1 ELSE nticks
    /\ UNCHANGED <<workers, emitted, cmds>>

HandleReset ==
    /\ panic = "none"
    /\ queue # <<>>
    /\ Head(queue).kind = "Reset"
    /\ Apply(UpdateReset(Self, workers), Head(queue))
    /\ workers' = workers + 1
    /\ nticks' = 0
    /\ UNCHANGED <<emitted, cmds>>

Next ==
    \/ TimerEmit
    \/ ClickStartStop
    \/ ClickReset
    \/ HandleStartStop
    \/ HandleTick
    \/ HandleReset

Spec == Init /\ [][Next]_vars

SpecInvalid == InitInvalid /\ [][Next]_vars

TypeOK ==
    /\ exercise \in Definitions
    /\ state \in ExerciseState
    /\ running \in BOOLEAN
    /\ timer \in 0..workers
    /\ panic \in {"none", "assert", "overflow"}
    /\ Len(queue) <= MaxQueue + 1

\* ------------------------------------------------------------------ claims
Terminal == remaining_sets = 0 /\ remaining_s = 0

Progress(m) == <<m.state, m.remaining_s, m.remaining_sets>>

\* the model after k Ticks and nothing else
RECURSIVE RunAfter(_, _, _)
RunAfter(ex, oc, k) ==
    IF k = 0 THEN new(ex, 0) ELSE UpdateTick(RunAfter(ex, oc, k - 1), oc).m

OnlyTicks == cmds = 0

\* C1: with warmup, exercise, rest and sets all >= 1 and nothing but Ticks
\* delivered, the timer is terminal (remaining_sets = 0, remaining_s = 0) once
\* w + n*e + (n-1)*r Ticks have been handled, and not after fewer.
C1_TotalTicks ==
    (OnlyTicks /\ exercise.warmup_s >= 1 /\ exercise.rest_s >= 1)
        => /\ nticks < TotalTicks(exercise) => ~Terminal
           /\ nticks = TotalTicks(exercise) => Terminal

C1_Witness ==
    /\ OnlyTicks /\ exercise.warmup_s >= 1 /\ exercise.rest_s >= 1
    /\ exercise.sets = 2
    /\ last.msg = "Tick" /\ nticks = TotalTicks(exercise) /\ Terminal

\* C2: in every state, remaining_sets = 0 implies the timer is not running and
\* holds no tick handle.
C2_DoneImpliesStopped ==
    remaining_sets = 0 => (running = FALSE /\ timer = None)

\* C3: a Tick handled while running is false is ignored: no panic, and phase,
\* remaining seconds, remaining sets and running are as before.
C3_TickWhileStoppedIgnored ==
    (last.msg = "Tick" /\ ~last.pre.running)
        => (panic = "none" /\ Snapshot(Self) = last.pre)

\* C4: a Tick sent by a worker other than the one the timer holds does not
\* change the snapshot of the run in progress.
C4_StaleTickDiscarded ==
    (last.msg = "Tick" /\ last.pre_timer # None /\ last.from # last.pre_timer)
        => Snapshot(Self) = last.pre

\* C5: after Reset is handled, whatever the state before, the timer is in
\* Warmup, running, with remaining_s = warmup_s and remaining_sets = sets, and
\* holds a worker that was never held before.
C5_Reset ==
    last.msg = "Reset"
        => /\ Snapshot(Self) = [state |-> "Warmup", remaining_s |-> exercise.warmup_s,
                                remaining_sets |-> exercise.sets, running |-> TRUE]
           /\ timer # None
           /\ timer = workers
           /\ timer > last.pre_timer

C5_Witness ==
    /\ last.msg = "Reset"
    /\ ~last.pre.running
    /\ last.pre.remaining_sets = 0 /\ last.pre.remaining_s = 0
    /\ last.pre.state = "Exercise"

\* C6: in every state, running is true exactly when a tick handle is held.
C6_RunningIffTimer == running <=> timer # None

C6_Witness ==
    /\ last.msg = "StartStop" /\ last.pre.running
    /\ ~running /\ timer = None
    /\ remaining_sets > 0

\* C7: in every state remaining_s is within 0 .. max(warmup, exercise, rest).
C7_RemainingInRange == remaining_s \in 0..MaxDuration(exercise)

\* C8: handling a StartStop while running changes only running and the tick
\* handle, and a StartStop handled right after it resumes with the phase,
\* remaining seconds and remaining sets the timer had before it stopped.
C8_StopKeepsProgress ==
    /\ (last.msg = "StartStop" /\ last.pre.running)
           => /\ Progress(Self) = Progress(last.pre)
              /\ ~running /\ timer = None
    /\ (last.msg = "StartStop" /\ ~last.pre.running
            /\ last.prev_msg = "StartStop" /\ last.prev_pre.running)
           => /\ Progress(Self) = Progress(last.prev_pre)
              /\ running /\ timer # None

C8_Witness ==
    /\ last.msg = "StartStop" /\ ~last.pre.running
    /\ last.prev_msg = "StartStop" /\ last.prev_pre.running
    /\ running
    /\ state = "Rest" /\ remaining_s = 1 /\ exercise.rest_s = 2

\* C9: between two Resets the phase changes only Warmup -> Exercise,
\* Exercise -> Rest or Rest -> Exercise, and a Tick that leaves the phase as it
\* was only counts down: no phase is entered again from itself.
C9_PhaseOrder ==
    /\ (last.msg # "Reset" /\ last.pre.state # state)
           => <<last.pre.state, state>> \in
                  {<<"Warmup", "Exercise">>, <<"Exercise", "Rest">>, <<"Rest", "Exercise">>}
    /\ (last.msg = "Tick" /\ panic = "none" /\ last.pre.state = state)
           => remaining_s = last.pre.remaining_s - 1

C9_Witness ==
    /\ last.msg = "Tick" /\ last.pre.state = "Rest" /\ state = "Exercise"
    /\ remaining_sets = 1 /\ exercise.sets = 2

\* C10: whatever StartStop messages were handled among the Ticks of a run, the
\* phase, remaining seconds and remaining sets after k Ticks are those of a
\* run of k Ticks with no pause.
C10_PauseTransparent ==
    Progress(Self) = Progress(RunAfter(exercise, overflow_checks, nticks))

C10_Witness ==
    /\ last.msg = "Tick" /\ panic = "none"
    /\ last.prev_msg = "StartStop" /\ ~last.prev_pre.running
    /\ nticks >= 2
    /\ last.pre.state # state

TwoStartStops == last.msg = "StartStop" /\ last.prev_msg = "StartStop"

C13_NoStartWhenTerminal ==
    (last.msg = "StartStop" /\ ~last.pre.running
        /\ last.pre.remaining_sets = 0 /\ last.pre.remaining_s = 0)
        => (~running /\ timer = None)

\* the snapshots of the scenario with the default definition
Scenario ==
    [k \in {0, 1, 2, 4, 6, 8} |->
        CASE k = 0 -> [state |-> "Warmup", remaining_s |-> 2, remaining_sets |-> 2, running |-> TRUE]
          [] k = 1 -> [state |-> "Warmup", remaining_s |-> 1, remaining_sets |-> 2, running |-> TRUE]
          [] k = 2 -> [state |-> "Exercise", remaining_s |-> 2, remaining_sets |-> 2, running |-> TRUE]
          [] k = 4 -> [state |-> "Rest", remaining_s |-> 2, remaining_sets |-> 1, running |-> TRUE]
          [] k = 6 -> [state |-> "Exercise", remaining_s |-> 2, remaining_sets |-> 1, running |-> TRUE]
          [] k = 8 -> [state |-> "Exercise", remaining_s |-> 0, remaining_sets |-> 0, running |-> FALSE]]

\* C14: for the definition (2, 2, 2, 2) and Ticks only, the snapshot after
\* construction and right after Ticks 1, 2, 4, 6 and 8 is (Warmup,2,2,running),
\* (Warmup,1,2,running), (Exercise,2,2,running), (Rest,2,1,running),
\* (Exercise,2,1,running) and (Exercise,0,0,not running).
C14_Scenario ==
    (exercise = DefaultExercise /\ OnlyTicks /\ panic = "none"
        /\ last.msg \in {"none", "Tick"} /\ nticks \in DOMAIN Scenario)
        => Snapshot(Self) = Scenario[nticks]

C16_InvalidRejected ==
    (exercise.exercise_s = 0 \/ exercise.sets = 0)
        => (nticks = 0 /\ last.msg # "Tick")

\* C17: a Tick handled in a Warmup or Rest phase whose configured duration is 0
\* (remaining_s = 0 on entry) leaves the phase: the timer is then in Exercise
\* with remaining_s = exercise_s.
C17_ZeroPhaseLeftByNextTick ==
    (last.msg = "Tick" /\ last.pre.running /\ last.pre.remaining_s = 0
        /\ \/ last.pre.state = "Warmup" /\ exercise.warmup_s = 0
           \/ last.pre.state = "Rest" /\ exercise.rest_s = 0)
        => /\ panic = "none"
           /\ state = "Exercise"
           /\ remaining_s = exercise.exercise_s

PhaseStep == {<<"Warmup", "Exercise">>, <<"Exercise", "Rest">>, <<"Rest", "Exercise">>}

\* C18: a Tick moves the phase by at most one step and takes at most 1 from
\* remaining_sets; a Tick whose decrement leaves remaining_s other than 0
\* changes neither; and a Tick that ends a set with sets remaining enters Rest,
\* also when rest_s = 0.
C18_OneAdvancePerTick ==
    (last.msg = "Tick" /\ panic = "none")
        => /\ state = last.pre.state \/ <<last.pre.state, state>> \in PhaseStep
           /\ last.pre.remaining_sets - remaining_sets \in {0, 1}
           /\ last.pre.remaining_s # 1
                  => /\ state = last.pre.state
                     /\ remaining_sets = last.pre.remaining_sets
                     /\ remaining_s = last.pre.remaining_s - 1
           /\ (last.pre.state = "Exercise" /\ last.pre.remaining_s = 1
                 /\ last.pre.remaining_sets > 1)
                  => (state = "Rest" /\ remaining_s = exercise.rest_s)

C18_Witness ==
    /\ last.msg = "Tick" /\ panic = "none"
    /\ last.pre.state = "Exercise" /\ state = "Rest"
    /\ exercise.rest_s = 0 /\ remaining_s = 0
    /\ remaining_sets = 1

\* C19: when the StartStop the timer sent to itself is handled, the timer is
\* running with remaining_sets = 0, and handling it leaves running = false.
C19_SelfStopStops ==
    (last.msg = "StartStop" /\ last.from = "self")
        => /\ last.pre.running /\ last.pre.remaining_sets = 0
           /\ ~running

\* C20: remaining_sets is within 0 .. sets; it changes only by a Tick that ends
\* an Exercise phase, which takes exactly 1 from a value above 0, or by Reset,
\* which sets it to sets.
C20_RemainingSets ==
    /\ remaining_sets \in 0..exercise.sets
    /\ remaining_sets # last.pre.remaining_sets
           => \/ /\ last.msg = "Tick"
                 /\ last.pre.state = "Exercise" /\ last.pre.remaining_s = 1
                 /\ last.pre.remaining_sets > 0
                 /\ remaining_sets = last.pre.remaining_sets - 1
              \/ /\ last.msg = "Reset"
                 /\ remaining_sets = exercise.sets

C20_Witness ==
    /\ last.msg = "Tick" /\ last.pre.state = "Exercise"
    /\ last.pre.remaining_sets = 2 /\ remaining_sets = 1
    /\ state = "Rest"
====
